---- MODULE Spec2Model ----
(***************************************************************************)
(* lsr: a small `ls`.  src/src/lib.rs holds the whole program:             *)
(*   find_files    resolves the requested paths to the entries to list,    *)
(*   format_mode / mk_triple decode the permission bits,                   *)
(*   format_output builds the long listing,                                *)
(*   run           glues them together and prints.                         *)
(* Strings (paths, file names, cells) are sequences of one-character       *)
(* strings, so that starts_with, the path join and the decimal rendering   *)
(* are computed and not assumed.                                           *)
(***************************************************************************)
EXTENDS Integers, Sequences, FiniteSets, TLC

\* ------------------------------------------------------------------ bounds
MaxPaths == 2       \* length of the requested path list
MaxChildren == 2    \* entries the read of directory "d" yields
MaxUnlinks == 1     \* files removed between resolution and formatting
ModeBits == 11      \* width of the mode values given to format_mode

\* ------------------------------------------------------- the file system
\* The paths the requests are drawn from.
F == <<"f">>                    \* a regular file
H == <<".", "h">>               \* a regular file with a hidden name
D == <<"d">>                    \* a readable directory
U == <<"u">>                    \* a directory whose read_dir fails (EACCES)
P == <<"p">>                    \* a FIFO: metadata readable, neither file nor dir
X == <<"x">>                    \* does not exist
DH == <<"d", "/", ".", "h">>    \* the hidden child of "d", named directly

\* File names a read of "d" can yield.
NameH == <<".", "h">>
NameA == <<"a">>
NameS == <<"s">>
ChildNames == {NameH, NameA, NameS}

\* One item of the iterator fs::read_dir returns: Ok(DirEntry) or Err.
OkEntry(n) == [ok |-> TRUE, name |-> n]
ErrEntry == [ok |-> FALSE, name |-> <<>>]
DirEntries == {OkEntry(n) : n \in ChildNames} \cup {ErrEntry}

RequestPaths == {F, H, D, U, P, X, DH}

VARIABLES
    paths,        \* Args.paths
    show_hidden,  \* Args.show_hidden
    long,         \* Args.long
    listing,      \* what reading directory "d" yields, in the order it yields it
    removed,      \* paths unlinked after resolution
    pc,           \* where run is: "find", "format", "print", "done"
    i,            \* find_files: index of the requested path being processed
    results,      \* find_files: its local vector
    origin,       \* for each element of results, the index of the request that pushed it
    stderr,       \* lines written by eprintln!
    ff,           \* find_files' outcome: "running", "Ok", "Err"
    err,          \* the error value run returns, "" when none
    resolved,     \* run's `paths` (line 120): the Ok value of find_files
    j,            \* format_output / bare loop: index of the entry being handled
    table,        \* format_output: rows added so far
    stdout,       \* lines written by println!
    exit,         \* run's outcome: "running", "Ok", "Err"
    mode_in,      \* argument of format_mode (specification SpecMode)
    mode_out      \* its result, <<>> before the call

vars == <<paths, show_hidden, long, listing, removed, pc, i, results, origin,
          stderr, ff, err, resolved, j, table, stdout, exit, mode_in, mode_out>>

\* Sequences over S of length at most n.
SeqUpTo(S, n) == UNION {[1..k -> S] : k \in 0..n}

\* str::ends_with(char), taken for starts_with.
ends_with(s, c) == Len(s) > 0 /\ s[Len(s)] = c

\* str::starts_with(char)
starts_with(s, c) == Len(s) > 0 /\ s[1] = c

\* Path::join of a directory path and a file name (DirEntry::path).
Join(dir, name) ==
    IF Len(dir) > 0 /\ dir[Len(dir)] = "/" THEN dir \o name
    ELSE dir \o <<"/">> \o name

ListedNames == {listing[k].name : k \in {n \in 1..Len(listing) : listing[n].ok}}

\* The kind of file a path names: "file", "dir", "other" or "missing".
KindOf(p) ==
    IF p \in removed THEN "missing"
    ELSE IF p \in {F, H} THEN "file"
    ELSE IF p \in {D, U} THEN "dir"
    ELSE IF p = P THEN "other"
    ELSE IF \E n \in ListedNames : p = Join(D, n)
         THEN (IF p = Join(D, NameS) THEN "dir" ELSE "file")
    ELSE "missing"

\* The stat fields of an existing path; the modes are 0o644 = 420, 0o600 = 384,
\* 0o751 = 489, 0o640 = 416 and 0o755 = 493.
StatOf(p) ==
    IF p = F THEN [mode |-> 420, nlink |-> 1, uid |-> 0, gid |-> 0, size |-> 193]
    ELSE IF p = H THEN [mode |-> 384, nlink |-> 1, uid |-> 1000, gid |-> 0, size |-> 0]
    ELSE IF p = Join(D, NameA) THEN [mode |-> 489, nlink |-> 2, uid |-> 0, gid |-> 100, size |-> 12]
    ELSE IF p = Join(D, NameH) THEN [mode |-> 416, nlink |-> 1, uid |-> 0, gid |-> 0, size |-> 7]
    ELSE [mode |-> 493, nlink |-> 2, uid |-> 0, gid |-> 0, size |-> 4096]

\* metadata whose is_file is "not a directory".
metadata_not_dir(p) ==
    IF KindOf(p) = "missing" THEN [ok |-> FALSE, error |-> "ENOENT"]
    ELSE [ok |-> TRUE, is_file |-> KindOf(p) # "dir", is_dir |-> KindOf(p) = "dir",
          stat |-> StatOf(p)]

\* fs::metadata(path) / Path::metadata
metadata(p) ==
    IF KindOf(p) = "missing" THEN [ok |-> FALSE, error |-> "ENOENT"]
    ELSE [ok |-> TRUE, is_file |-> KindOf(p) = "file", is_dir |-> KindOf(p) = "dir",
          stat |-> StatOf(p)]

\* fs::read_dir(path): the iterator's items, or the error of opening it.
read_dir(p) ==
    IF KindOf(p) = "dir" /\ p # U THEN
        [ok |-> TRUE, entries |-> IF p = D THEN listing ELSE <<>>]
    ELSE [ok |-> FALSE, entries |-> <<>>,
          error |-> IF KindOf(p) = "dir" THEN "EACCES" ELSE "ENOTDIR"]

\* The inner loop with an Err item skipped (`let Ok(entry) = entry else continue`).
RECURSIVE read_entries_skip(_, _, _, _)
read_entries_skip(dir, entries, hidden, acc) ==
    IF entries = <<>> THEN [ok |-> TRUE, acc |-> acc]
    ELSE LET entry == Head(entries) IN
         IF ~entry.ok THEN read_entries_skip(dir, Tail(entries), hidden, acc)
         ELSE read_entries_skip(dir, Tail(entries), hidden,
                  IF hidden \/ ~(Len(entry.name) > 0 /\ entry.name[1] = ".")
                  THEN Append(acc, dir \o <<"/">> \o entry.name)
                  ELSE acc)

\* ------------------------------------------------------------ find_files
\* The inner loop (lines 41-47) over the items read_dir yielded: the first Err
\* item returns from find_files (`entry?`); an Ok item is pushed when it passes
\* the hidden filter.  acc is the vector so far.
RECURSIVE read_entries(_, _, _, _)
read_entries(dir, entries, hidden, acc) ==
    IF entries = <<>> THEN [ok |-> TRUE, acc |-> acc]
    ELSE LET entry == Head(entries) IN
         IF ~entry.ok THEN [ok |-> FALSE, acc |-> acc]
         ELSE read_entries(dir, Tail(entries), hidden,
                  IF hidden \/ ~starts_with(entry.name, ".")
                  THEN Append(acc, Join(dir, entry.name))
                  ELSE acc)

\* eprintln!("{}: {}", path, e)
Diagnostic(path, e) == path \o <<":", " ">> \o <<e>>

InFind == pc = "find" /\ i <= Len(paths)

\* The metadata failure propagated (`fs::metadata(path)?`).
FindMetadataErrFatal ==
    /\ pc = "find" /\ i <= Len(paths)
    /\ KindOf(paths[i]) = "missing"
    /\ ff' = "Err"
    /\ err' = "ENOENT"
    /\ exit' = "Err"
    /\ pc' = "done"
    /\ UNCHANGED <<paths, show_hidden, long, listing, removed, i, results, origin,
                   stderr, resolved, j, table, stdout, mode_in, mode_out>>

\* line 34-36: metadata failed; a diagnostic, and on to the next path.
FindMetadataErr ==
    /\ InFind
    /\ ~metadata(paths[i]).ok
    /\ stderr' = Append(stderr, Diagnostic(paths[i], metadata(paths[i]).error))
    /\ i' = i + 1
    /\ UNCHANGED <<paths, show_hidden, long, listing, removed, pc, results, origin,
                   ff, err, resolved, j, table, stdout, exit, mode_in, mode_out>>

\* The hidden filter applied to a directly named file as well.
FindPushFileFiltered ==
    /\ pc = "find" /\ i <= Len(paths)
    /\ KindOf(paths[i]) = "file"
    /\ LET keep == show_hidden \/ paths[i][1] # "." IN
        /\ results' = IF keep THEN Append(results, paths[i]) ELSE results
        /\ origin' = IF keep THEN Append(origin, i) ELSE origin
    /\ i' = i + 1
    /\ UNCHANGED <<paths, show_hidden, long, listing, removed, pc, stderr,
                   ff, err, resolved, j, table, stdout, exit, mode_in, mode_out>>

\* line 38-39: a regular file is pushed as it was given.
FindPushFile ==
    /\ InFind
    /\ metadata(paths[i]).ok
    /\ metadata(paths[i]).is_file
    /\ results' = Append(results, paths[i])
    /\ origin' = Append(origin, i)
    /\ i' = i + 1
    /\ UNCHANGED <<paths, show_hidden, long, listing, removed, pc, stderr,
                   ff, err, resolved, j, table, stdout, exit, mode_in, mode_out>>

\* The read_dir failure handled like a metadata failure: diagnostic and skip.
FindReadDirErrSkip ==
    /\ pc = "find" /\ i <= Len(paths)
    /\ KindOf(paths[i]) \in {"dir", "other"}
    /\ ~read_dir(paths[i]).ok
    /\ stderr' = Append(stderr, paths[i] \o <<":", " ">> \o <<read_dir(paths[i]).error>>)
    /\ i' = i + 1
    /\ UNCHANGED <<paths, show_hidden, long, listing, removed, pc, results, origin,
                   ff, err, resolved, j, table, stdout, exit, mode_in, mode_out>>

\* line 41: fs::read_dir(path)? fails; find_files returns Err and run returns it
\* (line 120), the vector is dropped.
FindReadDirErr ==
    /\ InFind
    /\ metadata(paths[i]).ok
    /\ ~metadata(paths[i]).is_file
    /\ ~read_dir(paths[i]).ok
    /\ ff' = "Err"
    /\ err' = read_dir(paths[i]).error
    /\ exit' = "Err"
    /\ pc' = "done"
    /\ UNCHANGED <<paths, show_hidden, long, listing, removed, i, results, origin,
                   stderr, resolved, j, table, stdout, mode_in, mode_out>>

\* line 42: an item of the iterator is Err; `entry?` returns it from find_files.
\* The children before it were pushed to the vector that is now dropped.
FindEntryErr ==
    /\ InFind
    /\ metadata(paths[i]).ok
    /\ ~metadata(paths[i]).is_file
    /\ read_dir(paths[i]).ok
    /\ LET r == read_entries(paths[i], read_dir(paths[i]).entries, show_hidden, results) IN
        /\ ~r.ok
        /\ results' = r.acc
        /\ origin' = origin \o [k \in 1..(Len(r.acc) - Len(results)) |-> i]
    /\ ff' = "Err"
    /\ err' = "EIO"
    /\ exit' = "Err"
    /\ pc' = "done"
    /\ UNCHANGED <<paths, show_hidden, long, listing, removed, i,
                   stderr, resolved, j, table, stdout, mode_in, mode_out>>

\* The children of a directory put in front of what was collected before.
FindReadDirPrepend ==
    /\ pc = "find" /\ i <= Len(paths)
    /\ KindOf(paths[i]) # "missing"
    /\ KindOf(paths[i]) # "file"
    /\ read_dir(paths[i]).ok
    /\ LET r == read_entries(paths[i], read_dir(paths[i]).entries, show_hidden, <<>>) IN
        /\ r.ok
        /\ results' = r.acc \o results
        /\ origin' = [k \in 1..Len(r.acc) |-> i] \o origin
    /\ i' = i + 1
    /\ UNCHANGED <<paths, show_hidden, long, listing, removed, pc, stderr,
                   ff, err, resolved, j, table, stdout, exit, mode_in, mode_out>>

\* lines 41-47: every item was Ok; the children that pass the filter are pushed
\* in the order they were read.
FindReadDir ==
    /\ InFind
    /\ metadata(paths[i]).ok
    /\ ~metadata(paths[i]).is_file
    /\ read_dir(paths[i]).ok
    /\ LET r == read_entries(paths[i], read_dir(paths[i]).entries, show_hidden, results) IN
        /\ r.ok
        /\ results' = r.acc
        /\ origin' = origin \o [k \in 1..(Len(r.acc) - Len(results)) |-> i]
    /\ i' = i + 1
    /\ UNCHANGED <<paths, show_hidden, long, listing, removed, pc, stderr,
                   ff, err, resolved, j, table, stdout, exit, mode_in, mode_out>>

\* line 53 and 120-122: Ok(results) becomes run's `paths`.
FindReturn ==
    /\ pc = "find"
    /\ i > Len(paths)
    /\ ff' = "Ok"
    /\ resolved' = results
    /\ pc' = IF long THEN "format" ELSE "print"
    /\ UNCHANGED <<paths, show_hidden, long, listing, removed, i, results, origin,
                   stderr, err, j, table, stdout, exit, mode_in, mode_out>>

\* find_files as a function of its arguments (and of the file system): its
\* return value, the diagnostics left aside.
RECURSIVE find_files_from(_, _, _)
find_files_from(ps, hidden, acc) ==
    IF ps = <<>> THEN [ok |-> TRUE, val |-> acc]
    ELSE LET path == Head(ps)
             m == metadata(path) IN
         IF ~m.ok THEN find_files_from(Tail(ps), hidden, acc)
         ELSE IF m.is_file THEN find_files_from(Tail(ps), hidden, Append(acc, path))
         ELSE IF ~read_dir(path).ok THEN [ok |-> FALSE, val |-> <<>>]
         ELSE LET r == read_entries(path, read_dir(path).entries, hidden, acc) IN
              IF ~r.ok THEN [ok |-> FALSE, val |-> <<>>]
              ELSE find_files_from(Tail(ps), hidden, r.acc)

find_files(ps, hidden) == find_files_from(ps, hidden, <<>>)

\* ------------------------------------------------- mk_triple, format_mode
RECURSIVE Pow2(_)
Pow2(n) == IF n = 0 THEN 1 ELSE 2 * Pow2(n - 1)

\* a & b on unsigned integers
RECURSIVE BitAnd(_, _)
BitAnd(a, b) ==
    IF a = 0 \/ b = 0 THEN 0
    ELSE (a % 2) * (b % 2) + 2 * BitAnd(a \div 2, b \div 2)

\* Owner::masks (src/owner.rs): [read, write, execute] of the class,
\* 0o400 0o200 0o100 / 0o040 0o020 0o010 / 0o004 0o002 0o001.
masks(owner) ==
    CASE owner = "User" -> <<256, 128, 64>>
      [] owner = "Group" -> <<32, 16, 8>>
      [] owner = "Other" -> <<4, 2, 1>>

\* mk_triple with the write and execute tests exchanged.
mk_triple_swapped(mode, owner) ==
    << IF BitAnd(mode, masks(owner)[1]) = 0 THEN "-" ELSE "r",
       IF BitAnd(mode, masks(owner)[3]) = 0 THEN "-" ELSE "w",
       IF BitAnd(mode, masks(owner)[2]) = 0 THEN "-" ELSE "x" >>

mk_triple(mode, owner) ==
    LET read == masks(owner)[1]
        write == masks(owner)[2]
        execute == masks(owner)[3]
    IN << IF BitAnd(mode, read) = 0 THEN "-" ELSE "r",
          IF BitAnd(mode, write) = 0 THEN "-" ELSE "w",
          IF BitAnd(mode, execute) = 0 THEN "-" ELSE "x" >>

format_mode(mode) ==
    mk_triple(mode, "User") \o mk_triple(mode, "Group") \o mk_triple(mode, "Other")

\* --------------------------------------------------------- format_output
Digits == <<"0", "1", "2", "3", "4", "5", "6", "7", "8", "9">>

\* Display of an unsigned integer (with_cell(nlink), with_cell(size), uid.to_string()).
RECURSIVE to_string(_)
to_string(n) ==
    IF n < 10 THEN <<Digits[n + 1]>>
    ELSE Append(to_string(n \div 10), Digits[(n % 10) + 1])

\* get_user_by_uid(uid).map(name): <<>> stands for None.
get_user_by_uid(uid) == IF uid = 0 THEN <<"r", "o", "o", "t">> ELSE <<>>

\* get_group_by_gid(gid).map(name): <<>> stands for None.
get_group_by_gid(gid) ==
    IF gid = 0 THEN <<"r", "o", "o", "t">>
    ELSE IF gid = 100 THEN <<"u", "s", "e", "r", "s">>
    ELSE <<>>

\* The cells of a row, in the order of the with_cell calls (lines 104-111).
ColType == 1
ColMode == 2
ColNlink == 3
ColUser == 4
ColGroup == 5
ColSize == 6
ColModified == 7
ColPath == 8

\* The row with the size cell left blank for a directory.
make_row_blank_dir(path, m) ==
    << IF m.is_dir THEN <<"d">> ELSE <<"-">>,
       format_mode(m.stat.mode),
       to_string(m.stat.nlink),
       IF get_user_by_uid(m.stat.uid) # <<>> THEN get_user_by_uid(m.stat.uid)
       ELSE to_string(m.stat.uid),
       IF get_group_by_gid(m.stat.gid) # <<>> THEN get_group_by_gid(m.stat.gid)
       ELSE to_string(m.stat.gid),
       IF m.is_dir THEN <<>> ELSE to_string(m.stat.size),
       <<"H", "H", ":", "M", "M">>,
       path >>

\* lines 84-112: the row of one entry whose metadata was read.  The modified
\* cell (strftime of the local time) is carried as the text "HH:MM".
make_row(path, m) ==
    LET file_type == IF m.is_dir THEN <<"d">> ELSE <<"-">>
        mode == format_mode(m.stat.mode)
        nlink == m.stat.nlink
        uid == m.stat.uid
        user_name == IF get_user_by_uid(uid) # <<>> THEN get_user_by_uid(uid)
                     ELSE to_string(uid)
        gid == m.stat.gid
        group_name == IF get_group_by_gid(gid) # <<>> THEN get_group_by_gid(gid)
                      ELSE to_string(gid)
        size == m.stat.size
        modified == <<"H", "H", ":", "M", "M">>
    IN << file_type, mode, to_string(nlink), user_name, group_name,
          to_string(size), modified, path >>

InFormat == pc = "format" /\ j <= Len(resolved)

\* lines 81-113, one iteration: the entry's metadata is read and its row added.
FormatRow ==
    /\ InFormat
    /\ metadata(resolved[j]).ok
    /\ table' = Append(table, make_row(resolved[j], metadata(resolved[j])))
    /\ j' = j + 1
    /\ UNCHANGED <<paths, show_hidden, long, listing, removed, pc, i, results, origin,
                   stderr, ff, err, resolved, stdout, exit, mode_in, mode_out>>

\* The metadata failure of an entry skipped, and the table built from the rest.
FormatMetadataErrSkip ==
    /\ pc = "format" /\ j <= Len(resolved)
    /\ KindOf(resolved[j]) = "missing"
    /\ j' = j + 1
    /\ UNCHANGED <<paths, show_hidden, long, listing, removed, pc, i, results, origin,
                   stderr, ff, err, resolved, table, stdout, exit, mode_in, mode_out>>

\* line 82: path.metadata()? fails; format_output returns Err, and run returns
\* it from line 123 before println! runs.
FormatMetadataErr ==
    /\ InFormat
    /\ ~metadata(resolved[j]).ok
    /\ err' = metadata(resolved[j]).error
    /\ exit' = "Err"
    /\ pc' = "done"
    /\ UNCHANGED <<paths, show_hidden, long, listing, removed, i, results, origin,
                   stderr, ff, resolved, j, table, stdout, mode_in, mode_out>>

\* lines 115 and 123: the table's rows, each a line, and println!'s own newline
\* after them (an empty last line); then Ok(()).
FormatPrint ==
    /\ pc = "format"
    /\ j > Len(resolved)
    /\ stdout' = stdout \o table \o << <<>> >>
    /\ exit' = "Ok"
    /\ pc' = "done"
    /\ UNCHANGED <<paths, show_hidden, long, listing, removed, i, results, origin,
                   stderr, ff, err, resolved, j, table, mode_in, mode_out>>

\* lines 125-127, one iteration: the path is printed on a line of its own.
PrintPath ==
    /\ pc = "print"
    /\ j <= Len(resolved)
    /\ stdout' = Append(stdout, <<resolved[j]>>)
    /\ j' = j + 1
    /\ UNCHANGED <<paths, show_hidden, long, listing, removed, pc, i, results, origin,
                   stderr, ff, err, resolved, table, exit, mode_in, mode_out>>

\* line 130: Ok(()) after the bare listing.
RunOk ==
    /\ pc = "print"
    /\ j > Len(resolved)
    /\ exit' = "Ok"
    /\ pc' = "done"
    /\ UNCHANGED <<paths, show_hidden, long, listing, removed, i, results, origin,
                   stderr, ff, err, resolved, j, table, stdout, mode_in, mode_out>>

Range(s) == {s[k] : k \in 1..Len(s)}

\* Another process removes a resolved entry while format_output has not yet
\* finished: the race line 82's `?` answers.
Unlink ==
    /\ pc = "format"
    /\ Cardinality(removed) < MaxUnlinks
    /\ \E p \in Range(resolved) \ removed : removed' = removed \cup {p}
    /\ UNCHANGED <<paths, show_hidden, long, listing, pc, i, results, origin,
                   stderr, ff, err, resolved, j, table, stdout, exit, mode_in, mode_out>>

\* ------------------------------------------------------- specifications
\* The directory listings: at most MaxChildren items, no file name twice.
Listings ==
    {l \in SeqUpTo(DirEntries, MaxChildren) :
        \A a, b \in 1..Len(l) : (a # b /\ l[a].ok /\ l[b].ok) => l[a].name # l[b].name}

Init ==
    /\ paths \in SeqUpTo(RequestPaths, MaxPaths)
    /\ show_hidden \in BOOLEAN
    /\ long \in BOOLEAN
    /\ listing \in Listings
    /\ removed = {}
    /\ pc = "find"
    /\ i = 1
    /\ results = <<>>
    /\ origin = <<>>
    /\ stderr = <<>>
    /\ ff = "running"
    /\ err = ""
    /\ resolved = <<>>
    /\ j = 1
    /\ table = <<>>
    /\ stdout = <<>>
    /\ exit = "running"
    /\ mode_in = 0
    /\ mode_out = <<>>

Next ==
    \/ FindMetadataErr
    \/ FindPushFile
    \/ FindReadDirErr
    \/ FindEntryErr
    \/ FindReadDir
    \/ FindReturn
    \/ FormatRow
    \/ FormatMetadataErr
    \/ FormatPrint
    \/ PrintPath
    \/ RunOk
    \/ Unlink

Spec == Init /\ [][Next]_vars

\* format_mode alone, on every mode value of ModeBits bits.
InitMode ==
    /\ paths = <<>>
    /\ show_hidden = FALSE
    /\ long = FALSE
    /\ listing = <<>>
    /\ removed = {}
    /\ pc = "mode"
    /\ i = 1
    /\ results = <<>>
    /\ origin = <<>>
    /\ stderr = <<>>
    /\ ff = "running"
    /\ err = ""
    /\ resolved = <<>>
    /\ j = 1
    /\ table = <<>>
    /\ stdout = <<>>
    /\ exit = "running"
    /\ mode_in \in 0..(Pow2(ModeBits) - 1)
    /\ mode_out = <<>>

CallFormatMode ==
    /\ pc = "mode"
    /\ mode_out' = format_mode(mode_in)
    /\ pc' = "done"
    /\ UNCHANGED <<paths, show_hidden, long, listing, removed, i, results, origin,
                   stderr, ff, err, resolved, j, table, stdout, exit, mode_in>>

NextMode == CallFormatMode

SpecMode == InitMode /\ [][NextMode]_vars

\* ---------------------------------------------------------------- claims
\* What the file system held while find_files ran (nothing is removed before
\* it returns), said without the operators find_files is modelled with.
WasFile(p) == p \in {F, H} \/ (p = DH /\ OkEntry(NameH) \in Range(listing))
WasMissing(p) == p = X \/ (p = DH /\ OkEntry(NameH) \notin Range(listing))
ChildErr(p) == p = D /\ ErrEntry \in Range(listing)

\* The file name of a path: what follows its last "/".
RECURSIVE FileNameOf(_)
FileNameOf(p) ==
    IF p = <<>> \/ p[Len(p)] = "/" THEN <<>>
    ELSE Append(FileNameOf(SubSeq(p, 1, Len(p) - 1)), p[Len(p)])

IsHidden(name) == name # <<>> /\ Head(name) = "."

\* The entries request k contributed to the result.
FromRequest(k) == {resolved[n] : n \in {m \in 1..Len(resolved) : origin[m] = k}}

\* The children directory p held: its path joined with each name read.
ChildPaths(p) ==
    IF p = D THEN {p \o <<"/">> \o listing[n].name : n \in 1..Len(listing)} ELSE {}

\* C1: for every requested directory, the entries it contributes to an Ok
\* result are, with show_hidden = FALSE, exactly its children whose file name
\* does not start with "." and, with show_hidden = TRUE, all its children.
C1_HiddenFilter ==
    ff = "Ok" =>
        \A k \in 1..Len(paths) :
            paths[k] = D =>
                /\ show_hidden => FromRequest(k) = ChildPaths(D)
                /\ ~show_hidden =>
                       FromRequest(k) = {c \in ChildPaths(D) : ~IsHidden(FileNameOf(c))}

C1_Witness ==
    /\ ff = "Ok"
    /\ ~show_hidden
    /\ \E k \in 1..Len(paths) :
        /\ paths[k] = D
        /\ D \o <<"/", ".", "h">> \in ChildPaths(D) \ FromRequest(k)
        /\ D \o <<"/", "a">> \in FromRequest(k)

\* C2: a requested path that is a regular file is in an Ok result, exactly once
\* per request and as it was given, for both values of show_hidden and also
\* when its file name starts with ".".
C2_DirectFile ==
    ff = "Ok" =>
        \A k \in 1..Len(paths) :
            WasFile(paths[k]) =>
                /\ Cardinality({n \in 1..Len(resolved) : origin[n] = k}) = 1
                /\ FromRequest(k) = {paths[k]}

C2_Witness ==
    /\ ff = "Ok"
    /\ ~show_hidden
    /\ \E k \in 1..Len(paths) :
        /\ WasFile(paths[k])
        /\ IsHidden(FileNameOf(paths[k]))
        /\ paths[k] \in FromRequest(k)

NotMissing(p) == ~WasMissing(p)

\* C3: each requested path whose metadata fails leaves exactly one diagnostic
\* "<path>: <error>" and no entry, and the loop goes on; when metadata failures
\* are the only failures, find_files returns Ok with the result of the same
\* call on the list without the failing paths.
C3_MetadataErrSkipped ==
    /\ LET failed == SelectSeq(SubSeq(paths, 1, i - 1), WasMissing) IN
        stderr = [n \in 1..Len(failed) |-> failed[n] \o <<":", " ", "ENOENT">>]
    /\ \A n \in 1..Len(origin) : ~WasMissing(paths[origin[n]])
    /\ (/\ pc \notin {"find", "mode"}
        /\ removed = {}
        /\ \A k \in 1..Len(paths) : paths[k] \notin {U, P} /\ ~ChildErr(paths[k]))
       => /\ ff = "Ok"
          /\ find_files(SelectSeq(paths, NotMissing), show_hidden).ok
          /\ resolved = find_files(SelectSeq(paths, NotMissing), show_hidden).val

C3_Witness ==
    /\ ff = "Ok"
    /\ Len(paths) = 2
    /\ WasMissing(paths[1])
    /\ Len(stderr) = 1
    /\ resolved # <<>>

C5_ReadDirFatal ==
    /\ \A k \in 1..Len(paths) : k < i => paths[k] # U
    /\ (pc \notin {"find", "mode"} /\ i <= Len(paths) /\ paths[i] = U)
       => /\ ff = "Err"
          /\ exit = "Err"
          /\ err = "EACCES"
          /\ resolved = <<>>
          /\ stdout = <<>>

C5_Witness ==
    /\ exit = "Err"
    /\ i = 2
    /\ paths[2] = U
    /\ results # <<>>
    /\ resolved = <<>>
    /\ stdout = <<>>

\* C6: in long mode standard output is empty or the whole table, one row per
\* resolved entry in order and println!'s empty last line; when the metadata of
\* an entry cannot be read while the table is built, run returns Err and
\* nothing is printed, the rows built before it included.
C6_AllOrNothing ==
    long =>
        /\ \/ stdout = <<>>
           \/ /\ Len(stdout) = Len(resolved) + 1
              /\ stdout[Len(stdout)] = <<>>
              /\ \A n \in 1..Len(resolved) :
                    Len(stdout[n]) = ColPath /\ stdout[n][ColPath] = resolved[n]
        /\ (ff = "Ok" /\ exit = "Err") => stdout = <<>>
        /\ ff = "Ok" => Len(table) = j - 1
        /\ (ff = "Ok" /\ pc = "done" /\ j <= Len(resolved))
           => exit = "Err" /\ resolved[j] \in removed

C6_Witness ==
    /\ long
    /\ ff = "Ok"
    /\ exit = "Err"
    /\ Len(table) >= 1
    /\ stdout = <<>>

\* Concatenation of a sequence of sequences.
RECURSIVE Flatten(_)
Flatten(ss) == IF ss = <<>> THEN <<>> ELSE Head(ss) \o Flatten(Tail(ss))

IsOkEntry(e) == e.ok
IsShownEntry(e) == e.ok /\ ~IsHidden(e.name)

\* What one request contributes: a file itself, a directory its children in
\* the order they were read.
Contribution(p) ==
    IF WasFile(p) THEN <<p>>
    ELSE IF p = D THEN
        LET shown == IF show_hidden THEN SelectSeq(listing, IsOkEntry)
                     ELSE SelectSeq(listing, IsShownEntry)
        IN [n \in 1..Len(shown) |-> D \o <<"/">> \o shown[n].name]
    ELSE <<>>

\* C7: an Ok result is the concatenation, in request order, of what each
\* request contributes, the children of a directory in the order the read
\* returned them: nothing is sorted, moved or dropped as a duplicate.
C7_EncounterOrder ==
    /\ \A n \in 1..Len(origin) : n > 1 => origin[n - 1] <= origin[n]
    /\ ff = "Ok" => resolved = Flatten([k \in 1..Len(paths) |-> Contribution(paths[k])])

C7_Witness ==
    /\ ff = "Ok"
    /\ paths = <<D, F>>
    /\ resolved = << <<"d", "/", "s">>, <<"d", "/", "a">>, <<"f">> >>

\* The 9 low bits of a mode, read back from a permission string.
RECURSIVE Decode(_)
Decode(s) ==
    IF s = <<>> THEN 0
    ELSE 2 * Decode(SubSeq(s, 1, Len(s) - 1)) + (IF s[Len(s)] = "-" THEN 0 ELSE 1)

Letters == <<"r", "w", "x", "r", "w", "x", "r", "w", "x">>

RECURSIVE DecimalValue(_)
DecimalValue(s) ==
    IF s = <<>> THEN -1
    ELSE LET d == {k \in 0..9 : Digits[k + 1] = s[Len(s)]} IN
         IF d = {} THEN -1
         ELSE IF Len(s) = 1 THEN CHOOSE k \in d : TRUE
         ELSE LET hi == DecimalValue(SubSeq(s, 1, Len(s) - 1)) IN
              IF hi <= 0 THEN -1 ELSE 10 * hi + (CHOOSE k \in d : TRUE)

WasDir(p) == p = D \o <<"/", "s">>

\* The size in bytes of the entries a result can hold.
SizeOf(p) ==
    IF p = <<"f">> THEN 193
    ELSE IF p = <<".", "h">> THEN 0
    ELSE IF p = <<"d", "/", "a">> THEN 12
    ELSE IF p = <<"d", "/", ".", "h">> THEN 7
    ELSE 4096

C10_NotADirectoryFatal ==
    /\ \A k \in 1..Len(paths) : k < i => paths[k] # P
    /\ \A n \in 1..Len(stderr) : SubSeq(stderr[n], 1, Len(P) + 1) # P \o <<":">>
    /\ (pc \notin {"find", "mode"} /\ i <= Len(paths) /\ paths[i] = P)
       => /\ ff = "Err"
          /\ exit = "Err"
          /\ err = "ENOTDIR"
          /\ resolved = <<>>
          /\ stdout = <<>>

C10_Witness ==
    /\ exit = "Err"
    /\ err = "ENOTDIR"
    /\ i = 2
    /\ paths[2] = P
    /\ results # <<>>
    /\ resolved = <<>>

====
